---- MODULE Spec2Model ----
(***************************************************************************)
(* AlertIQ, "Speech_to_Text _for_Anomalies": the keyword distress          *)
(* classifier (app/distress.py) and the /analyze-voice request handler     *)
(* (app/main.py).                                                          *)
(*                                                                         *)
(* A Python str is a sequence of characters.  A character is a one-letter  *)
(* string, or the name of its code point ("U+017F") when it is not ASCII.  *)
(***************************************************************************)
EXTENDS Naturals, Sequences, FiniteSets, TLC

VARIABLES
    \* ---- classifier runs (app/distress.py) ----
    cin,          \* the str handed to is_unsafe
    cres,         \* what is_unsafe returned for cin, cin.upper(), cin.lower()
    \* ---- the server (app/main.py) ----
    pc,           \* request -> position in analyze_voice
    proc,         \* request -> the worker process running its handler
    audio,        \* request -> audio_bytes (the text spoken in the upload)
    name,         \* request -> temp.name
    got,          \* request -> what get_model() returned to it
    fault,        \* request -> the exception its handler raised ("none")
    result,       \* request -> result["text"], as transcribe returned it
    response,     \* request -> the dict its handler built and returned
    fs,           \* the temp directory: the files in it
    model,        \* process -> the module global `model`
    loads,        \* process -> completed whisper.load_model calls
    running,      \* process -> the coroutine its event loop is executing
    readBy,       \* request -> owners of the files its transcribe() opened
    unlinked      \* request -> owners of the files its os.unlink removed

cvars == <<cin, cres>>
hvars == <<pc, proc, audio, name, got, fault, result, response, fs, model,
           loads, running, readBy, unlinked>>
vars == <<cin, cres, pc, proc, audio, name, got, fault, result, response, fs,
          model, loads, running, readBy, unlinked>>

(***************************************************************************)
(* Bounds                                                                  *)
(***************************************************************************)
MaxLen == 4          \* longest exhaustively enumerated classifier input
NumRequests == 2     \* requests the server receives

(***************************************************************************)
(* Python str operations                                                   *)
(***************************************************************************)
Range(s) == {s[i] : i \in DOMAIN s}

ascii_lowercase ==
    <<"a", "b", "c", "d", "e", "f", "g", "h", "i", "j", "k", "l", "m",
      "n", "o", "p", "q", "r", "s", "t", "u", "v", "w", "x", "y", "z">>
ascii_uppercase ==
    <<"A", "B", "C", "D", "E", "F", "G", "H", "I", "J", "K", "L", "M",
      "N", "O", "P", "Q", "R", "S", "T", "U", "V", "W", "X", "Y", "Z">>

\* Non-ASCII characters of the model, with CPython's case mappings:
\*   U+017F LATIN SMALL LETTER LONG S    lower: itself   upper: "S"
\*   U+0131 LATIN SMALL LETTER DOTLESS I lower: itself   upper: "I"
\*   U+212A KELVIN SIGN                  lower: "k"      upper: itself
\*   U+00DF LATIN SMALL LETTER SHARP S   lower: itself   upper: "SS"
LongS == "U+017F"
DotlessI == "U+0131"
Kelvin == "U+212A"
SharpS == "U+00DF"

IsAscii(text) == Range(text) \cap {LongS, DotlessI, Kelvin, SharpS} = {}

\* The case mappings, as tables from the characters they change.
ToLower ==
    [c \in Range(ascii_uppercase) \cup {Kelvin} |->
        IF c = Kelvin THEN "k"
        ELSE ascii_lowercase[CHOOSE i \in DOMAIN ascii_uppercase : ascii_uppercase[i] = c]]

ToUpper ==
    [c \in Range(ascii_lowercase) \cup {LongS, DotlessI, SharpS} |->
        IF c = LongS THEN <<"S">>
        ELSE IF c = DotlessI THEN <<"I">>
        ELSE IF c = SharpS THEN <<"S", "S">>
        ELSE <<ascii_uppercase[CHOOSE i \in DOMAIN ascii_lowercase : ascii_lowercase[i] = c]>>]

\* str.lower() of one character (one character for each character here)
lower_char(c) == IF c \in DOMAIN ToLower THEN ToLower[c] ELSE c

\* str.upper() of one character (sharp s becomes two)
upper_char(c) == IF c \in DOMAIN ToUpper THEN ToUpper[c] ELSE <<c>>

\* str.lower()
lower(text) ==
    SubSeq([i \in 1..Len(text) |-> lower_char(text[i])], 1, Len(text))

\* str.upper()
RECURSIVE upper(_)
upper(text) ==
    IF text = <<>> THEN <<>> ELSE upper_char(Head(text)) \o upper(Tail(text))

\* A window one character short: the last character of the phrase is not compared.
contains_short(phrase, text) ==
    \E i \in 0..Len(text) :
        /\ i + Len(phrase) - 1 <= Len(text)
        /\ Len(phrase) > 0
        /\ SubSeq(text, i + 1, i + Len(phrase) - 1)
              = SubSeq(phrase, 1, Len(phrase) - 1)

\* Python's `phrase in text` on str: a contiguous occurrence, compared exactly.
contains(phrase, text) ==
    \E i \in 0..Len(text) :
        /\ i + Len(phrase) <= Len(text)
        /\ SubSeq(text, i + 1, i + Len(phrase)) = phrase

Whitespace == {" ", "\t", "\n", "\r"}

Min(S) == CHOOSE x \in S : \A y \in S : x <= y
Max(S) == CHOOSE x \in S : \A y \in S : y <= x

\* Positions of the characters str.strip() keeps between.
Inked(text) == {i \in 1..Len(text) : text[i] \notin Whitespace}

\* str.lstrip() in place of str.strip().
strip_left_only(text) ==
    IF Inked(text) = {} THEN <<>>
    ELSE SubSeq(text, Min(Inked(text)), Len(text))

\* str.strip(): without the leading and the trailing whitespace
strip(text) ==
    IF Inked(text) = {} THEN <<>>
    ELSE SubSeq(text, Min(Inked(text)), Max(Inked(text)))

(***************************************************************************)
(* app/distress.py                                                         *)
(***************************************************************************)
distress_phrases ==
    << <<"h", "e", "l", "p">>,
       <<"s", "a", "v", "e", " ", "m", "e">>,
       <<"i", " ", "n", "e", "e", "d", " ", "h", "e", "l", "p">>,
       <<"p", "l", "e", "a", "s", "e", " ", "h", "e", "l", "p">>,
       <<"i", " ", "a", "m", " ", "i", "n", " ", "d", "a", "n", "g", "e", "r">>,
       <<"s", "o", "m", "e", "o", "n", "e", " ", "i", "s", " ", "a", "t", "t",
         "a", "c", "k", "i", "n", "g", " ", "m", "e">>,
       <<"s", "o", "m", "e", "o", "n", "e", " ", "i", "s", " ", "f", "o", "l",
         "l", "o", "w", "i", "n", "g", " ", "m", "e">>,
       <<"i", " ", "a", "m", " ", "s", "c", "a", "r", "e", "d">>,
       <<"c", "a", "l", "l", " ", "t", "h", "e", " ", "p", "o", "l", "i", "c", "e">>,
       <<"e", "m", "e", "r", "g", "e", "n", "c", "y">>,
       <<"S", "a", "v", "e">>,
       <<"S", "o", "m", "e", "o", "n", "e", " ", "i", "s", " ", "c", "h", "a",
         "s", "i", "n", "g", " ", "m", "e">> >>

\* any(phrase in text for phrase in phrases)
any_in(phrases, text) == \E k \in DOMAIN phrases : contains(phrases[k], text)

\* The any(...) over the text as given, not lower-cased.
is_unsafe_no_lower(text) == any_in(distress_phrases, text)

\* text = text.lower(), then the any(...) over the list
is_unsafe(text) ==
    \E lowered \in {lower(text)} : any_in(distress_phrases, lowered)

(***************************************************************************)
(* Classifier runs: is_unsafe applied to a str, to its upper-cased and to  *)
(* its lower-cased form.                                                   *)
(***************************************************************************)
RECURSIVE SeqsUpTo(_, _)
SeqsUpTo(A, n) ==
    IF n = 0 THEN {<<>>}
    ELSE LET shorter == SeqsUpTo(A, n - 1)
         IN  shorter \cup {Append(t, a) : t \in shorter, a \in A}

\* Every str of up to MaxLen characters over each of these alphabets.
Alphabets == { {"h", "e", "l", "p", "H"}, {"S", "s", "a", "v", "e"} }
ShortTexts == UNION {SeqsUpTo(A, MaxLen) : A \in Alphabets}

\* Look-alike substitution: s, i, k and K by the non-ASCII characters that
\* str.upper() or str.lower() maps onto ASCII letters.
lookalike_char(c) ==
    IF c = "s" THEN LongS
    ELSE IF c = "i" THEN DotlessI
    ELSE IF c = "k" THEN Kelvin
    ELSE c

RECURSIVE lookalike(_)
lookalike(text) ==
    IF text = <<>> THEN <<>>
    ELSE <<lookalike_char(Head(text))>> \o lookalike(Tail(text))

\* First character upper-cased, as at the start of a sentence.
capitalized(text) ==
    IF text = <<>> THEN <<>> ELSE upper_char(Head(text)) \o Tail(text)

Recasings == {"asis", "lower", "upper", "capitalized", "lookalike"}
Recase(kind, text) ==
    CASE kind = "asis" -> text
      [] kind = "lower" -> lower(text)
      [] kind = "upper" -> upper(text)
      [] kind = "capitalized" -> capitalized(text)
      [] kind = "lookalike" -> lookalike(text)

\* Texts that stop short of a phrase, or mention none.
NearMisses ==
    { <<"h", "e", "l">>,
      <<"s", "a", "v", "e", "m", "e">>,
      <<"e", "m", "e", "r", "g", "e", "n", "c">>,
      <<"c", "a", "l", "l", " ", "p", "o", "l", "i", "c", "e">>,
      <<"s", "t", "r", "a", SharpS, "e">>,
      <<"n", "i", "c", "e", " ", "d", "a", "y">> }

Cores == Range(distress_phrases) \cup NearMisses
Pads == { <<>>, <<"o", "h", " ">>, <<" ", "n", "o", "w", "\n">> }

LongTexts ==
    { pre \o Recase(kind, core) \o suf :
        pre \in Pads, suf \in Pads, kind \in Recasings, core \in Cores }

Inputs == ShortTexts \cup LongTexts

NoRuns == [done |-> {}, plain |-> FALSE, up |-> FALSE, low |-> FALSE]

\* unsafe = is_unsafe(cin)
Classify ==
    /\ "plain" \notin cres.done
    /\ cres' = [cres EXCEPT !.done = @ \cup {"plain"}, !.plain = is_unsafe(cin)]
    /\ UNCHANGED <<cin, hvars>>

\* is_unsafe(cin.upper())
ClassifyUpper ==
    /\ "up" \notin cres.done
    /\ cres' = [cres EXCEPT !.done = @ \cup {"up"}, !.up = is_unsafe(upper(cin))]
    /\ UNCHANGED <<cin, hvars>>

\* is_unsafe(cin.lower())
ClassifyLower ==
    /\ "low" \notin cres.done
    /\ cres' = [cres EXCEPT !.done = @ \cup {"low"}, !.low = is_unsafe(lower(cin))]
    /\ UNCHANGED <<cin, hvars>>

ClassifierNext == Classify \/ ClassifyUpper \/ ClassifyLower

(***************************************************************************)
(* app/main.py: the server.  Each worker process has its own module global *)
(* `model` and its own event loop; the temp directory is shared by all.    *)
(* analyze_voice is a coroutine: it can be suspended only at               *)
(* `await file.read()`, and from there to its end it runs on the event     *)
(* loop without another coroutine of the same process in between.          *)
(* The file system is POSIX: a path can be unlinked while a descriptor on  *)
(* it is still open.                                                       *)
(***************************************************************************)
Requests == 1..NumRequests
Procs == {"w1", "w2"}
\* Names the temp directory can hand out: more than the files that can exist
\* at once, one per worker process.
Paths == {"tmpa.wav", "tmpb.wav"}

None == "None"                 \* no process, no path yet
NoText == <<"(unbound)">>      \* a str variable not yet assigned
NoModel == <<>>                \* `model = None`
Loaded(k) == <<"small", k>>    \* the k-th model a process loaded
NoResponse == [unsafe |-> FALSE, english_text |-> NoText, trigger |-> "(none)"]

\* What the uploaded recordings say (what transcribing them yields).
Texts ==
    { <<" ", "P", "l", "e", "a", "s", "e", " ", "h", "e", "l", "p", " ", "m",
        "e", " ", "n", "o", "w", "\n">>,
      <<" ", "t", "h", "e", " ", "w", "e", "a", "t", "h", "e", "r", " ", "i",
        "s", " ", "n", "i", "c", "e", " ", "t", "o", "d", "a", "y">> }

\* The temp directory is a set of files, at most one per path.
Exists(files, n) == \E f \in files : f.path = n
FileAt(files, n) == CHOOSE f \in files : f.path = n

ServerIdle ==
    /\ pc = [r \in Requests |-> "idle"]
    /\ proc = [r \in Requests |-> None]
    /\ audio = [r \in Requests |-> NoText]
    /\ name = [r \in Requests |-> None]
    /\ got = [r \in Requests |-> NoModel]
    /\ fault = [r \in Requests |-> "none"]
    /\ result = [r \in Requests |-> NoText]
    /\ response = [r \in Requests |-> NoResponse]
    /\ fs = {}
    /\ model = [p \in Procs |-> NoModel]
    /\ loads = [p \in Procs |-> 0]
    /\ running = [p \in Procs |-> {}]
    /\ readBy = [r \in Requests |-> {}]
    /\ unlinked = [r \in Requests |-> {}]

Init ==
    /\ cin = <<>>
    /\ cres = NoRuns
    /\ ServerIdle

\* The unlink at the end of the try body instead of in a finally block.
cleanup_on_success_only(r, what) ==
    IF what = "none" THEN {f \in fs : f.path # name[r]} ELSE fs

\* if os.path.exists(temp.name): os.unlink(temp.name)  -- the directory after it
cleanup(r, what) == {f \in fs : f.path # name[r]}

\* An except clause that swallows the exception and returns.
handler_exit_swallow(what) == "returned"

\* How the handler is left after `finally`: by the return, or by the exception.
handler_exit(what) == IF what = "none" THEN "returned" ELSE "raised"

\* The handler is left with no temp file made: the exception propagates, and
\* the frame (the locals, the place on the event loop) is gone.
Abort(r, what) ==
    /\ pc' = [pc EXCEPT ![r] = "raised"]
    /\ fault' = [fault EXCEPT ![r] = what]
    /\ proc' = [proc EXCEPT ![r] = None]
    /\ audio' = [audio EXCEPT ![r] = NoText]

\* The try body is left, by `return` (what = "none") or by an exception:
\* the finally block runs, then the handler is left and its frame is gone.
Leave(r, what) ==
    /\ fs' = cleanup(r, what)
    /\ unlinked' = [unlinked EXCEPT ![r] = @ \cup {f.owner : f \in fs \ fs'}]
    /\ pc' = [pc EXCEPT ![r] = handler_exit(what)]
    /\ fault' = [fault EXCEPT ![r] = what]
    /\ running' = [running EXCEPT ![proc[r]] = {}]
    /\ proc' = [proc EXCEPT ![r] = None]
    /\ audio' = [audio EXCEPT ![r] = NoText]
    /\ name' = [name EXCEPT ![r] = None]
    /\ got' = [got EXCEPT ![r] = NoModel]

\* POST /analyze-voice arrives at worker p: the coroutine starts and suspends
\* at `await file.read()`.
Arrive(r) ==
    /\ pc[r] = "idle"
    /\ \E p \in Procs :
          /\ running[p] = {}
          /\ proc' = [proc EXCEPT ![r] = p]
    /\ pc' = [pc EXCEPT ![r] = "reading"]
    /\ UNCHANGED <<cvars, audio, name, got, fault, result, response, fs, model,
                   loads, running, readBy, unlinked>>

\* audio_bytes = await file.read(): the event loop resumes the coroutine with
\* the upload's bytes, or throws the read's exception into it.
read_done(r) ==
    /\ pc[r] = "reading"
    /\ running[proc[r]] = {}
    /\ \/ /\ \E a \in Texts : audio' = [audio EXCEPT ![r] = a]
          /\ pc' = [pc EXCEPT ![r] = "create"]
          /\ running' = [running EXCEPT ![proc[r]] = {r}]
          /\ UNCHANGED <<fault, proc>>
       \/ /\ Abort(r, "read")
          /\ UNCHANGED running
    /\ UNCHANGED <<cvars, name, got, result, response, fs, model, loads,
                   readBy, unlinked>>

\* A name picked without O_EXCL: it may be one that exists.
NamedTemporaryFile_any_name(files) == Paths

\* tempfile.NamedTemporaryFile(suffix=".wav", delete=False): the names it can
\* create, each opened O_CREAT|O_EXCL, so none that exists.
NamedTemporaryFile(files) == {n \in Paths : ~Exists(files, n)}

\* temp = tempfile.NamedTemporaryFile(...), before the try.
create(r) ==
    /\ pc[r] = "create"
    /\ running[proc[r]] = {r}
    /\ \/ \E n \in NamedTemporaryFile(fs) :
             /\ fs' = {f \in fs : f.path # n}
                         \cup {[path |-> n, owner |-> r, data |-> <<>>]}
             /\ name' = [name EXCEPT ![r] = n]
             /\ pc' = [pc EXCEPT ![r] = "write"]
             /\ UNCHANGED <<fault, running, proc, audio>>
       \/ /\ Abort(r, "create")
          /\ running' = [running EXCEPT ![proc[r]] = {}]
          /\ UNCHANGED <<fs, name>>
    /\ UNCHANGED <<cvars, got, result, response, model, loads, readBy, unlinked>>

\* temp.write(audio_bytes); temp.close(): through the request's own descriptor,
\* so into the file it created, wherever that file now is.
write(r) ==
    /\ pc[r] = "write"
    /\ running[proc[r]] = {r}
    /\ \/ /\ fs' = {IF f.path = name[r] /\ f.owner = r
                    THEN [f EXCEPT !.data = audio[r]] ELSE f : f \in fs}
          /\ pc' = [pc EXCEPT ![r] = "get_model"]
          /\ UNCHANGED <<proc, audio, name, got, fault, running, unlinked>>
       \/ Leave(r, "write")
    /\ UNCHANGED <<cvars, result, response, model, loads, readBy>>

\* get_model without the `if model is None` test.
get_model_always_load(r) ==
    /\ pc[r] = "get_model"
    /\ running[proc[r]] = {r}
    /\ \/ /\ model' = [model EXCEPT ![proc[r]] = Loaded(loads[proc[r]] + 1)]
          /\ loads' = [loads EXCEPT ![proc[r]] = @ + 1]
          /\ got' = [got EXCEPT ![r] = Loaded(loads[proc[r]] + 1)]
          /\ pc' = [pc EXCEPT ![r] = "transcribe"]
          /\ UNCHANGED <<proc, audio, name, fault, fs, running, unlinked>>
       \/ /\ Leave(r, "load")
          /\ UNCHANGED <<model, loads>>
    /\ UNCHANGED <<cvars, result, response, readBy>>

\* get_model with the load failure swallowed: it returns the global, still None.
get_model_swallow_load_error(r) ==
    /\ pc[r] = "get_model"
    /\ running[proc[r]] = {r}
    /\ IF model[proc[r]] = NoModel
       THEN \/ /\ model' = [model EXCEPT ![proc[r]] = Loaded(loads[proc[r]] + 1)]
               /\ loads' = [loads EXCEPT ![proc[r]] = @ + 1]
               /\ got' = [got EXCEPT ![r] = Loaded(loads[proc[r]] + 1)]
            \/ UNCHANGED <<model, loads, got>>
       ELSE /\ got' = [got EXCEPT ![r] = model[proc[r]]]
            /\ UNCHANGED <<model, loads>>
    /\ pc' = [pc EXCEPT ![r] = "transcribe"]
    /\ UNCHANGED <<cvars, proc, audio, name, fault, result, response, fs,
                   running, readBy, unlinked>>

\* The call get_model() of line 30: no suspension point between the test of
\* the global and its assignment; whisper.load_model returns a whole model or
\* raises, and then `model` is still None.
get_model(r) ==
    /\ pc[r] = "get_model"
    /\ running[proc[r]] = {r}
    /\ IF model[proc[r]] = NoModel
       THEN \/ /\ model' = [model EXCEPT ![proc[r]] = Loaded(loads[proc[r]] + 1)]
               /\ loads' = [loads EXCEPT ![proc[r]] = @ + 1]
               /\ got' = [got EXCEPT ![r] = Loaded(loads[proc[r]] + 1)]
               /\ pc' = [pc EXCEPT ![r] = "transcribe"]
               /\ UNCHANGED <<proc, audio, name, fault, fs, running, unlinked>>
            \/ /\ Leave(r, "load")
               /\ UNCHANGED <<model, loads>>
       ELSE /\ got' = [got EXCEPT ![r] = model[proc[r]]]
            /\ pc' = [pc EXCEPT ![r] = "transcribe"]
            /\ UNCHANGED <<model, loads, proc, audio, name, fault, fs, running,
                           unlinked>>
    /\ UNCHANGED <<cvars, result, response, readBy>>

\* "VOICE_HELP" if unsafe else "NONE"
trigger(flag) == IF flag THEN "VOICE_HELP" ELSE "NONE"

\* result = <model>.transcribe(temp.name, task="translate", fp16=False): opens
\* the file at the path temp.name; fails on None, on a missing file, or inside
\* the library.  Then english_text = result["text"].strip(),
\* unsafe = is_unsafe(english_text) and return {...}; whichever way the try
\* body ends, the finally block follows.
transcribe(r) ==
    /\ pc[r] = "transcribe"
    /\ running[proc[r]] = {r}
    /\ \/ /\ Leave(r, "transcribe")
          /\ UNCHANGED <<result, readBy, response>>
       \/ /\ got[r] # NoModel
          /\ Exists(fs, name[r])
          /\ \E opened \in {FileAt(fs, name[r])} :
                /\ result' = [result EXCEPT ![r] = opened.data]
                /\ readBy' = [readBy EXCEPT ![r] = @ \cup {opened.owner}]
                /\ \/ /\ Leave(r, "extract")
                      /\ UNCHANGED response
                   \/ \E english_text \in {strip(opened.data)} :
                      \E unsafe \in {is_unsafe(english_text)} :
                         /\ response' = [response EXCEPT ![r] =
                                [unsafe |-> unsafe, english_text |-> english_text,
                                 trigger |-> trigger(unsafe)]]
                         /\ Leave(r, "none")
    /\ UNCHANGED <<cvars, model, loads>>

Step(r) ==
    \/ read_done(r) \/ create(r) \/ write(r) \/ get_model(r) \/ transcribe(r)

Next ==
    \/ \E r \in Requests : Arrive(r)
    \/ \E r \in Requests : read_done(r)
    \/ \E r \in Requests : create(r)
    \/ \E r \in Requests : write(r)
    \/ \E r \in Requests : get_model(r)
    \/ \E r \in Requests : transcribe(r)

Spec == Init /\ [][Next]_vars

\* The event loop resumes every coroutine whose await has completed, and the
\* operating system runs every worker process.
LiveSpec == Spec /\ \A r \in Requests : WF_vars(Step(r))

ClassifierInit ==
    /\ cin \in Inputs
    /\ cres = NoRuns
    /\ ServerIdle

ClassifierSpec == ClassifierInit /\ [][ClassifierNext]_vars

(***************************************************************************)
(* Properties.  The statements about text are written with their own       *)
(* notion of occurrence, index by index, not with the classifier's.        *)
(***************************************************************************)
OccursAt(p, t, i) ==
    /\ i + Len(p) <= Len(t)
    /\ \A j \in 1..Len(p) : t[i + j] = p[j]

Occurs(p, t) == \E i \in 0..Len(t) : OccursAt(p, t, i)

\* p occurs in t as a contiguous substring when both are lower-cased.
OccursIgnoringCase(p, t) == Occurs(lower(p), lower(t))

SomePhraseOccursIgnoringCase(t) ==
    \E k \in DOMAIN distress_phrases : OccursIgnoringCase(distress_phrases[k], t)

Save == <<"S", "a", "v", "e">>
SomeoneIsChasingMe ==
    <<"S", "o", "m", "e", "o", "n", "e", " ", "i", "s", " ", "c", "h", "a",
      "s", "i", "n", "g", " ", "m", "e">>

\* t is s without its leading and trailing whitespace.
IsTrimOf(t, s) ==
    /\ t = <<>> \/ (t[1] \notin Whitespace /\ t[Len(t)] \notin Whitespace)
    /\ \E i \in 0..Len(s) : \E j \in i..Len(s) :
          /\ SubSeq(s, i + 1, j) = t
          /\ \A k \in 1..i : s[k] \in Whitespace
          /\ \A k \in (j + 1)..Len(s) : s[k] \in Whitespace

Exited(r) == pc[r] \in {"returned", "raised"}
OwnsAFile(r) == \E f \in fs : f.owner = r
HoldsTempFile(r) == pc[r] \in {"write", "get_model", "transcribe"}

\* C1: once the handler of a request has returned or raised, no temporary
\* file created by that request exists in the temp directory.
C1_TempFileRemoved == \A r \in Requests : Exited(r) => ~OwnsAFile(r)

\* A request whose temp file was created and whose write failed has raised,
\* its own unlink having removed the file.
C1_Witness ==
    \E r \in Requests :
        pc[r] = "raised" /\ fault[r] = "write" /\ unlinked[r] = {r}

\* C2: whenever an entry of the phrase list occurs in the input, ignoring
\* case, is_unsafe returns true.
C2_ListedPhraseIsUnsafe ==
    ("plain" \in cres.done /\ SomePhraseOccursIgnoringCase(cin)) => cres.plain

\* C3: whenever no entry of the phrase list occurs in the input, ignoring
\* case, is_unsafe returns false; is_unsafe("") is false.
C3_NoPhraseIsSafe ==
    /\ ("plain" \in cres.done /\ ~SomePhraseOccursIgnoringCase(cin)) => ~cres.plain
    /\ ("plain" \in cres.done /\ cin = <<>>) => ~cres.plain

\* is_unsafe has run on a non-empty text that stops short of every phrase.
C3_Witness ==
    /\ "plain" \in cres.done
    /\ cin = <<"o", "h", " ", "E", "M", "E", "R", "G", "E", "N", "C">>
    /\ ~SomePhraseOccursIgnoringCase(cin)
    /\ ~cres.plain

\* C4: a response carries the transcription text without its leading and
\* trailing whitespace, unsafe = is_unsafe(english_text), and the trigger
\* "VOICE_HELP" exactly when unsafe and "NONE" exactly when not.
C4_ResponseShape ==
    \A r \in Requests :
        pc[r] = "returned" =>
              /\ IsTrimOf(response[r].english_text, result[r])
              /\ response[r].unsafe = is_unsafe(response[r].english_text)
              /\ response[r].trigger \in {"VOICE_HELP", "NONE"}
              /\ response[r].trigger = "VOICE_HELP" <=> response[r].unsafe
              /\ response[r].trigger = "NONE" <=> ~response[r].unsafe

\* Both verdicts have been returned: "Please help me now" as VOICE_HELP, from
\* a transcription with whitespace on both sides, and another text as NONE.
C4_Witness ==
    \E r, s \in Requests :
        /\ pc[r] = "returned"
        /\ response[r] =
              [unsafe |-> TRUE,
               english_text |-> <<"P", "l", "e", "a", "s", "e", " ", "h", "e",
                                   "l", "p", " ", "m", "e", " ", "n", "o", "w">>,
               trigger |-> "VOICE_HELP"]
        /\ pc[s] = "returned"
        /\ response[s].trigger = "NONE"

\* C5: in each process the global model is assigned at most once, and every
\* request that got a model from get_model got that one instance.
C5_ModelLoadedAtMostOnce ==
    /\ \A p \in Procs :
          /\ loads[p] <= 1
          /\ model[p] \in {NoModel, Loaded(1)}
          /\ model[p] = NoModel <=> loads[p] = 0
    /\ \A r \in Requests :
          pc[r] = "transcribe" =>
              got[r] = Loaded(1) /\ got[r] = model[proc[r]]

\* A second request of a process is about to transcribe with the model an
\* earlier, finished request of the same process loaded.
C5_Witness ==
    \E r, s \in Requests :
        /\ r # s
        /\ pc[r] = "returned"
        /\ pc[s] = "transcribe" /\ got[s] = Loaded(1)
        /\ model = [p \in Procs |-> IF p = proc[s] THEN Loaded(1) ELSE NoModel]

GetModelReturnedLoaded ==
    \A r \in Requests :
        pc[r] = "transcribe" =>
            \E k \in 1..NumRequests : got[r] = Loaded(k) /\ model[proc[r]] = got[r]

FailedBeforeTranscription(r, causes) == Exited(r) /\ fault[r] \in causes

C7_FaultPropagates ==
    \A r \in Requests :
        fault[r] \in {"load", "transcribe"} =>
            /\ response[r] = NoResponse
            /\ pc[r] = "raised"
            /\ ~OwnsAFile(r)

\* One request has raised its model-load failure, another its transcription
\* failure, each after unlinking its own file.
C7_Witness ==
    \E r, s \in Requests :
        /\ pc[r] = "raised" /\ fault[r] = "load" /\ unlinked[r] = {r}
        /\ pc[s] = "raised" /\ fault[s] = "transcribe" /\ unlinked[s] = {s}

AllRun == cres.done = {"plain", "up", "low"}

\* C8 (as stated): is_unsafe(s) = is_unsafe(s.upper()) = is_unsafe(s.lower())
\* for every s.
C8_CaseInsensitiveInput ==
    AllRun => (cres.plain = cres.up /\ cres.plain = cres.low)

\* C8 (amended): is_unsafe(s) = is_unsafe(s.lower()) for every s, and
\* is_unsafe(s) = is_unsafe(s.upper()) for every s of ASCII characters.
C8_CaseInsensitiveAsciiInput ==
    /\ {"plain", "low"} \subseteq cres.done => cres.plain = cres.low
    /\ ({"plain", "up"} \subseteq cres.done /\ IsAscii(cin)) => cres.plain = cres.up

\* A mixed-case ASCII text mentioning a phrase has been classified in all
\* three casings, and flagged.
C8_Witness ==
    /\ AllRun
    /\ IsAscii(cin) /\ cin # lower(cin) /\ cin # upper(cin)
    /\ cres.plain /\ cres.up /\ cres.low

LiveEntries ==
    {k \in DOMAIN distress_phrases :
        distress_phrases[k] \notin {Save, SomeoneIsChasingMe}}

\* C9: the entries "Save" and "Someone is chasing me" never match the
\* lower-cased input, and is_unsafe returns what the list without them gives.
C9_MixedCaseEntriesDead ==
    /\ ~Occurs(Save, lower(cin))
    /\ ~Occurs(SomeoneIsChasingMe, lower(cin))
    /\ "plain" \in cres.done =>
          (cres.plain <=>
              \E k \in LiveEntries : Occurs(distress_phrases[k], lower(cin)))

\* A text that mentions "Someone is chasing me", and no other entry, has been
\* classified as safe.
C9_Witness ==
    /\ "plain" \in cres.done
    /\ Occurs(SomeoneIsChasingMe, cin)
    /\ ~cres.plain

\* C10: from creating its temp file to the end of its transcription a
\* request's file exists under its name and is its own; requests holding temp
\* files hold different names; a request reads and unlinks no file but its
\* own, and a file holds nothing but its owner's upload.
C10_ExclusiveTempFiles ==
    /\ \A r \in Requests :
          /\ pc[r] \in {"write", "get_model", "transcribe"} =>
                \E f \in fs : f.path = name[r] /\ f.owner = r
          /\ readBy[r] \subseteq {r}
          /\ unlinked[r] \subseteq {r}
    /\ \A r, s \in Requests :
          (r # s /\ HoldsTempFile(r) /\ HoldsTempFile(s)) => name[r] # name[s]
    /\ \A f \in fs : f.data \in {<<>>, audio[f.owner]}
    /\ \A f, g \in fs : f.path = g.path => f = g

\* Two requests, in different processes, hold written temp files at once, and
\* one of them has transcribed its own.
C10_Witness ==
    \E r, s \in Requests :
        /\ r # s
        /\ pc[r] = "returned" /\ readBy[r] = {r} /\ unlinked[r] = {r}
        /\ pc[s] = "transcribe"
        /\ \E f \in fs : f.owner = s /\ f.data = audio[s]

====
